---- MODULE Spec2Model ----
(***************************************************************************)
(* Model of ingestion/supabase/client.py: SupabaseClient, a wrapper that   *)
(* writes rows to a remote table in batches (insert_rows, upsert_rows),    *)
(* each batch through a retry loop with exponential backoff (_retry),      *)
(* the batches produced by _chunk.                                         *)
(*                                                                         *)
(* The remote service (supabase-py's .insert(...).execute() and            *)
(* .upsert(...).execute()) is the environment: each request either         *)
(* returns, and then the write has been applied to the table, or raises    *)
(* one of the exceptions in RemoteErrors, and then nothing was applied.    *)
(***************************************************************************)
EXTENDS Integers, Sequences, FiniteSets, TLC

\* ------------------------------------------------------------- bounds
MaxRows == 3          \* longest rows argument
MaxRetries == 3       \* largest max_retries (smallest is 0)
MaxBatch == 2         \* largest batch_size (smallest is -1)
MaxCalls == 2         \* how often the same upsert is run in SpecRerun
MaxRetriesRerun == 2  \* largest max_retries in SpecRerun
MaxRowsConc == 2      \* longest rows argument in SpecConc
MaxRetriesConc == 2   \* largest max_retries in SpecConc

\* ------------------------------------------------------------- values
NoneVal == "None"                       \* Python's None
\* A row is a record with the conflict-key column k and one other column v.
RemoteErrors == {"APIError", "ConnectError"}   \* what a request may raise
CallRows == {[k |-> 1, v |-> 1], [k |-> 2, v |-> 2]}   \* rows drawn in Spec
\* rows drawn in SpecRerun: two of them share a conflict key
RerunRows == {[k |-> 1, v |-> 1], [k |-> 1, v |-> 2], [k |-> 2, v |-> 1]}
Backoffs == {1, 2}                      \* backoff_seconds values tried
SchemaArgs == {NoneVal, "norm"}         \* the schema argument
TableArgs == {"ohlcv_daily"}            \* the table argument
ConflictArgs == {"k"}                   \* the on_conflict argument

SeqsUpTo(S, n) == UNION {[1..m -> S] : m \in 0..n}

Min(a, b) == IF a < b THEN a ELSE b

RECURSIVE Pow2(_)
Pow2(n) == IF n <= 0 THEN 1 ELSE 2 * Pow2(n - 1)

\* rows[i : j] of Python for 0 <= i: the elements at 0-based positions
\* i .. min(j, len) - 1.
Slice(s, i, j) ==
    LET hi == Min(j, Len(s))
    IN  IF hi <= i THEN <<>> ELSE [x \in 1..(hi - i) |-> s[i + x]]

\* range(start, stop, step) as the sequence of its values (step # 0).
RECURSIVE PyRange(_, _, _)
PyRange(start, stop, step) ==
    IF (step > 0 /\ start >= stop) \/ (step < 0 /\ start <= stop)
    THEN <<>>
    ELSE <<start>> \o PyRange(start + step, stop, step)

\* _chunk raises ValueError ("range() arg 3 must not be zero") for size 0.
ChunkRaises(size) == size = 0

\* Variant: the range stops before a trailing partial slice.
ChunkDropsTail(rs, size) ==
    LET starts == PyRange(0, Len(rs) - size + 1, size)
    IN  [n \in 1..Len(starts) |-> Slice(rs, starts[n], starts[n] + size)]

\* Variant: each slice runs one row into the next one.
ChunkOverlaps(rs, size) ==
    LET starts == PyRange(0, Len(rs), size)
    IN  [n \in 1..Len(starts) |-> Slice(rs, starts[n], starts[n] + size + 1)]

\* Variant: the range is never empty, so no rows give one empty chunk.
ChunkOneForEmpty(rs, size) ==
    LET starts == PyRange(0, IF Len(rs) = 0 THEN 1 ELSE Len(rs), size)
    IN  [n \in 1..Len(starts) |-> Slice(rs, starts[n], starts[n] + size)]

\* _chunk(rows, size) = [rows[i : i + size] for i in range(0, len(rows), size)]
_chunk(rs, size) ==
    LET starts == PyRange(0, Len(rs), size)
    IN  [n \in 1..Len(starts) |-> Slice(rs, starts[n], starts[n] + size)]

\* schema or self.default_schema: None and "" are falsy.
SchemaOrDefault(s, dflt) == IF s \in {NoneVal, ""} THEN dflt ELSE s

\* Variant: the exponent is the attempt number itself.
BackoffOffByOne(base, att) == base * Pow2(att)

\* wait = self.backoff_seconds * (2 ** (attempt - 1))
Backoff(base, att) == base * Pow2(att - 1)

\* ------------------------------------------------- the remote table
\* The table is the sequence of its records.  A plain insert appends.
RemoteInsert(tbl, rs) == tbl \o rs

\* A conflict-resolving write of one row: the record with the same
\* conflict key is updated in place, otherwise the row is appended.
UpsertOne(tbl, r) ==
    IF \E i \in 1..Len(tbl) : tbl[i].k = r.k
    THEN [i \in 1..Len(tbl) |-> IF tbl[i].k = r.k THEN r ELSE tbl[i]]
    ELSE Append(tbl, r)

RECURSIVE RemoteUpsert(_, _)
RemoteUpsert(tbl, rs) ==
    IF rs = <<>> THEN tbl ELSE RemoteUpsert(UpsertOne(tbl, Head(rs)), Tail(rs))

\* Variant: upsert_rows sends a plain insert, as insert_rows does.
RequestAlwaysInsert(o, sch, tb, ch, oc) ==
    [kind |-> "insert", schema |-> sch, table |-> tb, rows |-> ch,
     on_conflict |-> NoneVal]

\* The request a unit of work sends: insert_rows builds .insert(chunk),
\* upsert_rows builds .upsert(chunk, on_conflict=on_conflict).
Request(o, sch, tb, ch, oc) ==
    [kind |-> o, schema |-> sch, table |-> tb, rows |-> ch,
     on_conflict |-> IF o = "upsert" THEN oc ELSE NoneVal]

\* What the service does with a request that succeeds.
Apply(tbl, req) ==
    IF req.kind = "upsert" THEN RemoteUpsert(tbl, req.rows)
    ELSE RemoteInsert(tbl, req.rows)

\* Tables the service may hold before the first call: at most one record
\* per conflict key.
InitialTables == {<<>>, <<[k |-> 1, v |-> 2]>>}

VARIABLES
    default_schema, max_retries, backoff_seconds, batch_size,  \* self.*
    op, table, rows, on_conflict, schema,    \* the call and its arguments
    schema_to_use, chunks, ci, chunk,        \* locals of insert/upsert_rows
    attempt, last_error, wait,               \* locals of _retry
    pc, outcome, raised,                     \* control, and how the call ended
    db, db0,                                 \* the remote table, now and at first
    requests, sleeps,                        \* what was sent and slept, in order
    errors,                                  \* what fn raised in this _retry
    calls,                                   \* calls made so far
    prior,                                   \* how the call before ended:
                                             \* outcome, chunks written
    other                                    \* the frame of a second call
                                             \* in flight in another thread

config == <<default_schema, max_retries, backoff_seconds, batch_size>>
args == <<op, table, rows, on_conflict, schema>>
locals == <<schema_to_use, chunks, ci, chunk, attempt, last_error, wait>>
vars == <<config, args, locals, pc, outcome, raised, db, db0, requests,
          sleeps, errors, calls, prior, other>>

\* The locals and the arguments of a call are its own: a frame. This is
\* the frame of thread t before it calls anything.
NoCall(t) ==
    [id |-> t,
     op |-> NoneVal, table |-> NoneVal, rows |-> <<>>, on_conflict |-> NoneVal,
     schema |-> NoneVal,
     schema_to_use |-> NoneVal, chunks |-> <<>>, ci |-> 0, chunk |-> <<>>,
     attempt |-> 0, last_error |-> NoneVal, wait |-> 0,
     pc |-> "idle", outcome |-> "none", raised |-> NoneVal,
     db |-> <<>>, requests |-> <<>>, sleeps |-> <<>>, errors |-> <<>>]

\* __init__ stores the configuration as given; nothing validates it.
Init ==
    /\ default_schema = "raw"
    /\ max_retries \in 0..MaxRetries
    /\ backoff_seconds \in Backoffs
    /\ batch_size \in -1..MaxBatch
    /\ op = NoneVal /\ table = NoneVal /\ rows = <<>>
    /\ on_conflict = NoneVal /\ schema = NoneVal
    /\ schema_to_use = NoneVal /\ chunks = <<>> /\ ci = 0 /\ chunk = <<>>
    /\ attempt = 0 /\ last_error = NoneVal /\ wait = 0
    /\ pc = "idle" /\ outcome = "none" /\ raised = NoneVal
    /\ db0 = <<>> /\ db = db0
    /\ requests = <<>> /\ sleeps = <<>> /\ errors = <<>>
    /\ calls = 0 /\ prior = [outcome |-> "none", written |-> 0]
    /\ other = NoCall(2)

\* ------------------------------------------------------ control flow
\* The call returns None.
ReturnNormally == pc' = "done" /\ outcome' = "returned" /\ raised' = NoneVal

\* An exception leaves insert_rows / upsert_rows: nothing catches it.
RaiseError(e) == pc' = "done" /\ outcome' = "raised" /\ raised' = e

\* raise x: raising None is itself a TypeError ("exceptions must derive
\* from BaseException").
PyRaise(x) == IF x = NoneVal THEN "TypeError" ELSE x

\* Variant: only the first exception is kept.
RecordFirstError(prev, e) == IF prev = NoneVal THEN e ELSE prev

\* except Exception as e: last_error = e
RecordError(prev, e) == e

\* Variant: the range runs one attempt too far.
HasAttemptOffByOne(n) == n <= max_retries + 1

\* for attempt in range(1, self.max_retries + 1): is there a next attempt?
HasAttempt(n) == n <= max_retries

\* Variant: the attempt counter is kept on the client and goes on from where
\* the previous _retry left it.
EnterRetryKeepsAttempt ==
    /\ last_error' = NoneVal
    /\ errors' = <<>>
    /\ IF HasAttempt(IF attempt < 1 THEN 1 ELSE attempt)
       THEN /\ attempt' = (IF attempt < 1 THEN 1 ELSE attempt)
            /\ pc' = "fn" /\ outcome' = "none" /\ raised' = NoneVal
       ELSE attempt' = attempt /\ RaiseError(PyRaise(NoneVal))

\* Variant: an empty attempt loop falls through to a plain return.
EnterRetryReturnsOnEmpty ==
    /\ last_error' = NoneVal
    /\ errors' = <<>>
    /\ IF HasAttempt(1)
       THEN attempt' = 1 /\ pc' = "fn" /\ outcome' = "none" /\ raised' = NoneVal
       ELSE attempt' = attempt /\ ReturnNormally

\* _retry up to its first request: last_error = None, then the first
\* iteration of the attempt loop, or raise last_error when the loop is empty.
EnterRetry ==
    /\ last_error' = NoneVal
    /\ errors' = <<>>
    /\ IF HasAttempt(1)
       THEN attempt' = 1 /\ pc' = "fn" /\ outcome' = "none" /\ raised' = NoneVal
       ELSE attempt' = attempt /\ RaiseError(PyRaise(NoneVal))

\* Variant: the lambdas see the loop variable as it is after the loop, the
\* last chunk.
ForLoopBindsLast(cs, n) ==
    IF n <= Len(cs)
    THEN ci' = n /\ chunk' = cs[Len(cs)] /\ EnterRetry
    ELSE UNCHANGED <<ci, chunk, attempt, last_error, errors>> /\ ReturnNormally

\* for chunk in chunks: self._retry(fn=lambda: ...), at the n-th chunk.
ForLoop(cs, n) ==
    IF n <= Len(cs)
    THEN ci' = n /\ chunk' = cs[n] /\ EnterRetry
    ELSE UNCHANGED <<ci, chunk, attempt, last_error, errors>> /\ ReturnNormally

\* Variant: the attempt loop ends without raising, so _retry returns and
\* the for loop goes on.
RetrySwallows == ForLoop(chunks, ci + 1)

\* The attempt loop of _retry is exhausted: raise last_error.
RetryExhausted ==
    /\ RaiseError(PyRaise(last_error))
    /\ UNCHANGED <<ci, chunk, attempt, last_error, errors>>

\* Variant: no early return for an empty rows argument.
WriteRowsNoGuard(rs, sch) ==
    /\ schema_to_use' = SchemaOrDefault(sch, default_schema)
    /\ wait' = wait
    /\ IF ChunkRaises(batch_size)
       THEN /\ RaiseError("ValueError")
            /\ UNCHANGED <<chunks, ci, chunk, attempt, last_error, errors>>
       ELSE /\ chunks' = _chunk(rs, batch_size)
            /\ ForLoop(_chunk(rs, batch_size), 1)

\* The body of insert_rows and of upsert_rows, up to the first request.
WriteRows(rs, sch) ==
    IF rs = <<>>
    THEN ReturnNormally /\ UNCHANGED <<locals, errors>>
    ELSE /\ schema_to_use' = SchemaOrDefault(sch, default_schema)
         /\ wait' = wait
         /\ IF ChunkRaises(batch_size)
            THEN /\ RaiseError("ValueError")
                 /\ UNCHANGED <<chunks, ci, chunk, attempt, last_error, errors>>
            ELSE /\ chunks' = _chunk(rs, batch_size)
                 /\ ForLoop(_chunk(rs, batch_size), 1)

\* ----------------------------------------------------------- actions
\* client.insert_rows(table, rows, schema) or
\* client.upsert_rows(table, rows, on_conflict, schema) is called.
Call(o, tb, rs, oc, sch) ==
    /\ pc = "idle"
    /\ op' = o /\ table' = tb /\ rows' = rs /\ on_conflict' = oc /\ schema' = sch
    /\ calls' = calls + 1
    /\ WriteRows(rs, sch)
    /\ UNCHANGED <<config, db, db0, requests, sleeps, prior, other>>

\* Variant: fn() returns but _retry does not: the attempt loop goes on.
FnReturnsNoReturn ==
    /\ pc = "fn"
    /\ LET req == Request(op, schema_to_use, table, chunk, on_conflict)
       IN  /\ requests' = Append(requests,
                   [req |-> req, chunk_ix |-> ci, ok |-> TRUE])
           /\ db' = Apply(db, req)
    /\ IF HasAttempt(attempt + 1)
       THEN /\ attempt' = attempt + 1 /\ pc' = "fn"
            /\ UNCHANGED <<ci, chunk, last_error, errors, outcome, raised>>
       ELSE RetryExhausted
    /\ UNCHANGED <<config, args, schema_to_use, chunks, wait, db0, sleeps, calls,
                   prior, other>>

\* fn() returns: the request was applied; _retry returns and the for loop
\* goes on to the next chunk.
FnReturns ==
    /\ pc = "fn"
    /\ LET req == Request(op, schema_to_use, table, chunk, on_conflict)
       IN  /\ requests' = Append(requests,
                   [req |-> req, chunk_ix |-> ci, ok |-> TRUE])
           /\ db' = Apply(db, req)
    /\ ForLoop(chunks, ci + 1)
    /\ UNCHANGED <<config, args, schema_to_use, chunks, wait, db0, sleeps, calls,
                   prior, other>>

\* Variant: an APIError is taken as not retriable and raised at once.
FnRaisesClassifies(e) ==
    /\ pc = "fn"
    /\ LET req == Request(op, schema_to_use, table, chunk, on_conflict)
       IN  requests' = Append(requests,
                   [req |-> req, chunk_ix |-> ci, ok |-> FALSE])
    /\ errors' = Append(errors, e)
    /\ last_error' = RecordError(last_error, e)
    /\ IF e = "APIError"
       THEN RaiseError(e) /\ wait' = wait
       ELSE /\ wait' = Backoff(backoff_seconds, attempt)
            /\ pc' = "sleep"
            /\ UNCHANGED <<outcome, raised>>
    /\ UNCHANGED <<config, args, schema_to_use, chunks, ci, chunk, attempt,
                   db, db0, sleeps, calls, prior, other>>

\* fn() raises e: except Exception records it and computes the wait.
FnRaises(e) ==
    /\ pc = "fn"
    /\ LET req == Request(op, schema_to_use, table, chunk, on_conflict)
       IN  requests' = Append(requests,
                   [req |-> req, chunk_ix |-> ci, ok |-> FALSE])
    /\ errors' = Append(errors, e)
    /\ last_error' = RecordError(last_error, e)
    /\ wait' = Backoff(backoff_seconds, attempt)
    /\ pc' = "sleep"
    /\ UNCHANGED <<config, args, schema_to_use, chunks, ci, chunk, attempt,
                   outcome, raised, db, db0, sleeps, calls, prior, other>>

\* Variant: the doubled wait is stored back into self.backoff_seconds.
SleepReturnsDoublesBackoff ==
    /\ pc = "sleep"
    /\ sleeps' = Append(sleeps, [chunk_ix |-> ci, seconds |-> wait])
    /\ backoff_seconds' = 2 * backoff_seconds
    /\ IF HasAttempt(attempt + 1)
       THEN /\ attempt' = attempt + 1 /\ pc' = "fn"
            /\ UNCHANGED <<ci, chunk, last_error, errors, outcome, raised>>
       ELSE RetryExhausted
    /\ UNCHANGED <<default_schema, max_retries, batch_size, args,
                   schema_to_use, chunks, wait, db, db0, requests, calls, prior, other>>

\* time.sleep(wait) returns: the next attempt, or the end of the loop.
SleepReturns ==
    /\ pc = "sleep"
    /\ sleeps' = Append(sleeps, [chunk_ix |-> ci, seconds |-> wait])
    /\ IF HasAttempt(attempt + 1)
       THEN /\ attempt' = attempt + 1 /\ pc' = "fn"
            /\ UNCHANGED <<ci, chunk, last_error, errors, outcome, raised>>
       ELSE RetryExhausted
    /\ UNCHANGED <<config, args, schema_to_use, chunks, wait, db, db0,
                   requests, calls, prior, other>>

Next ==
    \/ \E o \in {"insert", "upsert"}, tb \in TableArgs, rs \in SeqsUpTo(CallRows, MaxRows),
          oc \in ConflictArgs, sch \in SchemaArgs :
            Call(o, tb, rs, IF o = "upsert" THEN oc ELSE NoneVal, sch)
    \/ FnReturns
    \/ \E e \in RemoteErrors : FnRaises(e)
    \/ SleepReturns

Spec == Init /\ [][Next]_vars

\* ------------------------------ one call, its requests and sleeps ending
\* One insert_rows call into the default schema, by a client with
\* backoff_seconds = 1, where every request that was sent returns or raises
\* and every sleep that was started returns.
InitLive == Init /\ backoff_seconds = 1

FnEnds == FnReturns \/ \E e \in RemoteErrors : FnRaises(e)

NextLive ==
    \/ \E rs \in SeqsUpTo(CallRows, MaxRows) :
            Call("insert", "ohlcv_daily", rs, NoneVal, NoneVal)
    \/ FnReturns
    \/ \E e \in RemoteErrors : FnRaises(e)
    \/ SleepReturns

SpecLive ==
    InitLive /\ [][NextLive]_vars /\ WF_vars(FnEnds) /\ WF_vars(SleepReturns)

\* ------------------------------------------- the same upsert, re-run
\* A job that runs one upsert_rows call and, when it has ended (returned or
\* raised), runs the same call again, against a table that may already
\* hold records.
InitRerun ==
    /\ default_schema = "raw"
    /\ max_retries \in 0..MaxRetriesRerun
    /\ backoff_seconds = 1
    /\ batch_size \in -1..MaxBatch
    /\ op = NoneVal /\ table = NoneVal /\ rows = <<>>
    /\ on_conflict = NoneVal /\ schema = NoneVal
    /\ schema_to_use = NoneVal /\ chunks = <<>> /\ ci = 0 /\ chunk = <<>>
    /\ attempt = 0 /\ last_error = NoneVal /\ wait = 0
    /\ pc = "idle" /\ outcome = "none" /\ raised = NoneVal
    /\ db0 \in InitialTables /\ db = db0
    /\ requests = <<>> /\ sleeps = <<>> /\ errors = <<>>
    /\ calls = 0 /\ prior = [outcome |-> "none", written |-> 0]
    /\ other = NoCall(2)

\* The caller repeats client.upsert_rows(table, rows, on_conflict, schema).
Recall ==
    /\ pc = "done"
    /\ op = "upsert"
    /\ calls < MaxCalls
    /\ calls' = calls + 1
    /\ requests' = <<>> /\ sleeps' = <<>>
    /\ prior' = [outcome |-> outcome,
                 written |-> Len(SelectSeq(requests, LAMBDA r : r.ok))]
    /\ WriteRows(rows, schema)
    /\ UNCHANGED <<config, args, db, db0, other>>

NextRerun ==
    \/ \E rs \in SeqsUpTo(RerunRows, MaxRows) : Call("upsert", "ohlcv_daily", rs, "k", NoneVal)
    \/ FnReturns
    \/ FnRaises("ConnectError")
    \/ SleepReturns
    \/ Recall

SpecRerun == InitRerun /\ [][NextRerun]_vars

\* ------------------------------- two calls in flight on one client
\* Two threads share one SupabaseClient; each makes one call, thread 1 an
\* insert_rows into raw.ohlcv_daily and thread 2 an upsert_rows into
\* norm.trades. The variables hold the frame of the thread that is running,
\* other the frame of the thread that is not; db is the table the running
\* call writes. self.* (config) is the only state the two have in common.
ThisThread == 3 - other.id

ThisFrame ==
    [id |-> ThisThread,
     op |-> op, table |-> table, rows |-> rows, on_conflict |-> on_conflict,
     schema |-> schema,
     schema_to_use |-> schema_to_use, chunks |-> chunks, ci |-> ci,
     chunk |-> chunk,
     attempt |-> attempt, last_error |-> last_error, wait |-> wait,
     pc |-> pc, outcome |-> outcome, raised |-> raised,
     db |-> db, requests |-> requests, sleeps |-> sleeps, errors |-> errors]

\* The rows thread t passes: n rows of its own.
ConcRows(t, n) == [i \in 1..n |-> [k |-> i, v |-> 10 * t]]

\* The kind of error the requests of thread t fail with.
ConcError(t) == IF t = 1 THEN "APIError" ELSE "ConnectError"

InitConc ==
    /\ Init
    /\ max_retries \in 0..MaxRetriesConc
    /\ backoff_seconds = 1
    /\ batch_size \in {1, 2}

\* Variant: attempt and last_error are kept on the client (self.attempt,
\* self.last_error), so both calls read and write the same ones.
SwitchSharesRetryState ==
    /\ other' = ThisFrame
    /\ op' = other.op /\ table' = other.table /\ rows' = other.rows
    /\ on_conflict' = other.on_conflict /\ schema' = other.schema
    /\ schema_to_use' = other.schema_to_use /\ chunks' = other.chunks
    /\ ci' = other.ci /\ chunk' = other.chunk
    /\ attempt' = attempt /\ last_error' = last_error
    /\ wait' = other.wait
    /\ pc' = other.pc /\ outcome' = other.outcome /\ raised' = other.raised
    /\ db' = other.db /\ requests' = other.requests
    /\ sleeps' = other.sleeps /\ errors' = other.errors
    /\ UNCHANGED <<config, db0, calls, prior>>

\* The running thread is suspended between two steps and the other thread
\* runs: every local of insert_rows / upsert_rows and of _retry belongs to
\* the call, so it is put aside and restored with its frame.
Switch ==
    /\ other' = ThisFrame
    /\ op' = other.op /\ table' = other.table /\ rows' = other.rows
    /\ on_conflict' = other.on_conflict /\ schema' = other.schema
    /\ schema_to_use' = other.schema_to_use /\ chunks' = other.chunks
    /\ ci' = other.ci /\ chunk' = other.chunk
    /\ attempt' = other.attempt /\ last_error' = other.last_error
    /\ wait' = other.wait
    /\ pc' = other.pc /\ outcome' = other.outcome /\ raised' = other.raised
    /\ db' = other.db /\ requests' = other.requests
    /\ sleeps' = other.sleeps /\ errors' = other.errors
    /\ UNCHANGED <<config, db0, calls, prior>>

NextConc ==
    \/ \E n \in 0..MaxRowsConc :
            IF ThisThread = 1
            THEN Call("insert", "ohlcv_daily", ConcRows(1, n), NoneVal, NoneVal)
            ELSE Call("upsert", "trades", ConcRows(2, n), "k", "norm")
    \/ FnReturns
    \/ FnRaises(ConcError(ThisThread))
    \/ SleepReturns
    \/ Switch

SpecConc == InitConc /\ [][NextConc]_vars

\* ------------------------------------------------------- observations
Last(s) == s[Len(s)]

RECURSIVE Flatten(_)
Flatten(ss) == IF ss = <<>> THEN <<>> ELSE Head(ss) \o Flatten(Tail(ss))

CeilDiv(n, d) == (n + d - 1) \div d

\* The requests sent, and the sleeps taken, for the c-th chunk of the call.
ReqsOf(c) == SelectSeq(requests, LAMBDA r : r.chunk_ix = c)
SleepsOf(c) == SelectSeq(sleeps, LAMBDA x : x.chunk_ix = c)

\* The rows carried by the requests, in request order.
RowsOf(rq) == Flatten([i \in 1..Len(rq) |-> rq[i].req.rows])

AllFailed(rq) == \A i \in 1..Len(rq) : ~rq[i].ok
AllOk(rq) == \A i \in 1..Len(rq) : rq[i].ok

\* The table after the rows rs have been written to tbl by o.
Written(o, tbl, rs) ==
    IF o = "upsert" THEN RemoteUpsert(tbl, rs) ELSE RemoteInsert(tbl, rs)

\* ------------------------------------------------------------- claims

\* C1: when the unit of work of a chunk failed k times and then succeeded
\* (k + 1 <= max_retries), _retry returned after exactly k + 1 invocations
\* and k sleeps, the j-th lasting backoff_seconds * 2^(j-1); the successful
\* invocation is the last one and no sleep follows it.
C1_SucceedsAfterKFailures ==
    \A c \in 1..Len(chunks) :
        LET rq == ReqsOf(c)
            sl == SleepsOf(c)
            k == Len(rq) - 1
        IN  (rq # <<>> /\ Last(rq).ok) =>
                /\ k + 1 <= max_retries
                /\ AllFailed(SubSeq(rq, 1, k))
                /\ Len(sl) = k
                /\ \A j \in 1..k : sl[j].seconds = backoff_seconds * 2^(j - 1)
                /\ ci > c \/ (pc = "done" /\ outcome = "returned")

C1_Witness ==
    /\ pc = "done" /\ outcome = "returned"
    /\ \E c \in 1..Len(chunks) :
          /\ Len(ReqsOf(c)) = 3 /\ Last(ReqsOf(c)).ok
          /\ Len(SleepsOf(c)) = 2 /\ SleepsOf(c)[2].seconds = 4

\* C2: when the unit of work fails on every invocation (max_retries >= 1),
\* it is invoked exactly max_retries times, never more, and the call then
\* raises the exception of the last invocation itself.
C2_ExhaustionRaisesLastError ==
    /\ \A c \in 1..Len(chunks) : Len(ReqsOf(c)) <= max_retries
    /\ ( /\ max_retries >= 1 /\ ci >= 1 /\ pc # "sleep"
         /\ Len(ReqsOf(ci)) = max_retries /\ AllFailed(ReqsOf(ci)) )
       => /\ pc = "done" /\ outcome = "raised"
          /\ Len(errors) = max_retries
          /\ raised = Last(errors)
    /\ (pc = "done" /\ outcome = "raised" /\ raised \in RemoteErrors)
       => /\ Len(ReqsOf(ci)) = max_retries /\ AllFailed(ReqsOf(ci))
          /\ raised = Last(errors)

C2_Witness ==
    /\ pc = "done" /\ outcome = "raised" /\ max_retries = 3
    /\ errors = <<"ConnectError", "ConnectError", "APIError">>
    /\ raised = "APIError"

\* Chunk j has used up its retries: max_retries requests, all failed, and
\* _retry is past its last sleep.
Exhausted(j) ==
    /\ max_retries >= 1
    /\ Len(ReqsOf(j)) = max_retries /\ AllFailed(ReqsOf(j))
    /\ ~(pc = "sleep" /\ ci = j)

\* C3: when chunk j has exhausted its retries, the call has ended raising
\* chunk j's last error, every chunk before j was sent and written and is
\* still in the table, and nothing was sent for a chunk after j.
C3_PartialFailure ==
    \A j \in 1..Len(chunks) :
        Exhausted(j) =>
            /\ pc = "done" /\ outcome = "raised"
            /\ raised = Last(errors)
            /\ \A c \in 1..(j - 1) :
                  /\ ReqsOf(c) # <<>>
                  /\ Last(ReqsOf(c)).ok
                  /\ Last(ReqsOf(c)).req.rows = chunks[c]
            /\ db = Written(op, db0, Flatten(SubSeq(chunks, 1, j - 1)))
            /\ \A i \in 1..Len(requests) : requests[i].chunk_ix <= j

C3_Witness ==
    /\ pc = "done" /\ outcome = "raised" /\ errors # <<>>
    /\ Len(chunks) = 3
    /\ Last(requests).chunk_ix = 2
    /\ db = chunks[1] /\ db # db0
    /\ raised = "ConnectError"

\* C4 as stated: with batch_size b >= 1, a call of N rows in which no
\* request failed sent exactly ceil(N / b) requests, each with at most b
\* rows, and the rows of the requests in request order are the rows
\* argument.  With max_retries < 1 the call raises before any request.
C4_BatchingAnyRetries ==
    (pc = "done" /\ batch_size >= 1 /\ AllOk(requests)) =>
        /\ Len(requests) = CeilDiv(Len(rows), batch_size)
        /\ \A i \in 1..Len(requests) : Len(requests[i].req.rows) <= batch_size
        /\ RowsOf(requests) = rows

\* C4, amended: with batch_size b >= 1 and max_retries >= 1, a call of N
\* rows in which no request failed returned after exactly ceil(N / b)
\* requests, each with at most b rows, and the rows of the requests in
\* request order are the rows argument.
C4_Batching ==
    (pc = "done" /\ batch_size >= 1 /\ max_retries >= 1 /\ AllOk(requests)) =>
        /\ outcome = "returned"
        /\ Len(requests) = CeilDiv(Len(rows), batch_size)
        /\ \A i \in 1..Len(requests) : Len(requests[i].req.rows) <= batch_size
        /\ RowsOf(requests) = rows

C4_Witness ==
    /\ pc = "done" /\ outcome = "returned" /\ AllOk(requests)
    /\ Len(rows) = 3 /\ batch_size = 2
    /\ Len(requests) = 2
    /\ Len(requests[1].req.rows) = 2 /\ Len(requests[2].req.rows) = 1
    /\ rows[1] # rows[2]

\* C5: chunks are handled one at a time in chunk order: the first request
\* is for chunk 1, a failed request is followed only by a request for the
\* same chunk, a successful one only by a request for the next chunk, and
\* the request in flight is for the chunk the for loop is at.
C5_Sequential ==
    /\ requests # <<>> => requests[1].chunk_ix = 1
    /\ \A i \in 1..(Len(requests) - 1) :
          requests[i + 1].chunk_ix =
              IF requests[i].ok THEN requests[i].chunk_ix + 1
              ELSE requests[i].chunk_ix
    /\ pc = "fn" =>
          ci = IF requests = <<>> THEN 1
               ELSE IF Last(requests).ok THEN Last(requests).chunk_ix + 1
               ELSE Last(requests).chunk_ix

C5_Witness ==
    /\ Len(requests) = 4
    /\ ~requests[1].ok /\ requests[2].ok /\ ~requests[3].ok /\ requests[4].ok
    /\ requests[2].chunk_ix = 1 /\ requests[3].chunk_ix = 2

\* The table one upsert_rows call that succeeds leaves, starting from tbl:
\* its chunks written one after the other.
RECURSIVE UpsertChunks(_, _)
UpsertChunks(tbl, cs) ==
    IF cs = <<>> THEN tbl ELSE UpsertChunks(RemoteUpsert(tbl, Head(cs)), Tail(cs))

OneSuccessfulCall ==
    UpsertChunks(db0, IF ChunkRaises(batch_size) THEN <<>>
                      ELSE _chunk(rows, batch_size))

\* C6 (SpecRerun): whenever a run of the same upsert_rows call returns,
\* the first or a repeated one, after earlier runs that returned or that
\* aborted with only some chunks written, the table is the one a single
\* successful call leaves; it has one record per conflict key.
C6_UpsertIdempotent ==
    (pc = "done" /\ outcome = "returned" /\ op = "upsert") =>
        /\ db = OneSuccessfulCall
        /\ \A i, j \in 1..Len(db) : db[i].k = db[j].k => i = j

C6_Witness ==
    /\ pc = "done" /\ outcome = "returned" /\ op = "upsert"
    /\ calls = 2
    /\ prior.outcome = "raised" /\ prior.written = 1
    /\ Len(chunks) = 3
    /\ db0 # <<>> /\ db # db0

\* C7: a call never drops rows silently: when it has ended it has raised,
\* or it has returned and the rows of its successful requests, in request
\* order, are the rows argument.
C7_NeverSilentlyDrops ==
    pc = "done" =>
        \/ outcome = "raised"
        \/ /\ outcome = "returned"
           /\ RowsOf(SelectSeq(requests, LAMBDA r : r.ok)) = rows

\* C7 for batch_size >= 1: the same statement where _chunk's precondition
\* holds.
C7_NeverSilentlyDropsValidBatch ==
    (pc = "done" /\ batch_size >= 1) =>
        \/ outcome = "raised"
        \/ /\ outcome = "returned"
           /\ RowsOf(SelectSeq(requests, LAMBDA r : r.ok)) = rows

\* C8: for size >= 1 the chunks of rows, concatenated in order, are rows:
\* for the chunks the call computed, and for no rows at all.
C8_ChunksConcatenate ==
    (pc # "idle" /\ batch_size >= 1) =>
        /\ Flatten(_chunk(rows, batch_size)) = rows
        /\ rows # <<>> => Flatten(chunks) = rows

C8_Witness ==
    /\ pc # "idle" /\ batch_size = 2 /\ Len(rows) = 3
    /\ rows[1] # rows[2] /\ rows[3] = rows[1]
    /\ chunks = <<SubSeq(rows, 1, 2), SubSeq(rows, 3, 3)>>

\* C9: for size >= 1, _chunk gives ceil(len / size) chunks, each but the
\* last of length size, the last of length 1..size; no rows give no chunk.
C9_ChunkShape ==
    (pc # "idle" /\ batch_size >= 1) =>
        LET cs == IF rows = <<>> THEN _chunk(rows, batch_size) ELSE chunks
            n == Len(cs)
        IN  /\ n = CeilDiv(Len(rows), batch_size)
            /\ \A i \in 1..(n - 1) : Len(cs[i]) = batch_size
            /\ n >= 1 => Len(cs[n]) \in 1..batch_size
            /\ rows = <<>> => cs = <<>>

C9_Witness ==
    /\ pc # "idle" /\ batch_size = 2 /\ Len(rows) = 3
    /\ Len(chunks) = 2 /\ Len(chunks[1]) = 2 /\ Len(chunks[2]) = 1

\* C10: a call with no rows returns without a request and without a
\* sleep, for every operation, schema and configuration.
C10_EmptyIsNoOp ==
    (pc = "done" /\ rows = <<>>) =>
        /\ outcome = "returned"
        /\ requests = <<>> /\ sleeps = <<>>
        /\ db = db0

C10_Witness ==
    /\ pc = "done" /\ rows = <<>> /\ outcome = "returned"
    /\ op = "upsert" /\ schema = "norm"
    /\ batch_size = 0 /\ max_retries = 0

RECURSIVE SumSeconds(_)
SumSeconds(sl) == IF sl = <<>> THEN 0 ELSE Head(sl).seconds + SumSeconds(Tail(sl))

\* C11: _retry sleeps only after a failed attempt that is not the last
\* one: no chunk has more than max_retries - 1 sleeps, and when every
\* attempt of a chunk failed the error is raised after exactly
\* max_retries - 1 sleeps, backoff_seconds * (2^(max_retries-1) - 1) in all.
C11_NoSleepAfterLastAttempt ==
    max_retries >= 1 =>
        /\ \A c \in 1..Len(chunks) : Len(SleepsOf(c)) <= max_retries - 1
        /\ (pc = "done" /\ outcome = "raised" /\ errors # <<>>) =>
              /\ Len(SleepsOf(ci)) = max_retries - 1
              /\ SumSeconds(SleepsOf(ci)) =
                     backoff_seconds * (2^(max_retries - 1) - 1)

\* What the code does instead (C11): it sleeps after every failed attempt,
\* the last one included, so a run in which all attempts fail sleeps
\* max_retries times, backoff_seconds * (2^max_retries - 1) in all.
C11_SleepsAfterEveryFailure ==
    \A c \in 1..Len(chunks) :
        /\ Len(SleepsOf(c)) =
              Len(SelectSeq(ReqsOf(c), LAMBDA r : ~r.ok))
                - (IF pc = "sleep" /\ ci = c THEN 1 ELSE 0)
        /\ Exhausted(c) =>
              SumSeconds(SleepsOf(c)) = backoff_seconds * (2^max_retries - 1)

\* C12: _chunk fails exactly for a size below 1: a call with rows and
\* batch_size < 1 ends in the ValueError of _chunk without a chunk
\* sequence, and with batch_size >= 1 no such error is raised.
C12_ChunkRejectsInvalidSize ==
    (pc # "idle" /\ rows # <<>>) =>
        /\ batch_size < 1 <=>
              (pc = "done" /\ outcome = "raised" /\ raised = "ValueError")
        /\ batch_size < 1 => chunks = <<>> /\ requests = <<>>
        /\ batch_size < 1 <=> ChunkRaises(batch_size)

\* What the code does instead (C12): size 0 is rejected, a negative size
\* gives an empty chunk sequence and the call returns.
C12_NegativeSizeGivesNoChunks ==
    (pc # "idle" /\ rows # <<>>) =>
        /\ batch_size = 0 <=>
              (pc = "done" /\ outcome = "raised" /\ raised = "ValueError")
        /\ batch_size < 0 =>
              pc = "done" /\ outcome = "returned" /\ chunks = <<>> /\ requests = <<>>

\* C13: whatever exception the request raised, a failed attempt that is
\* not the last one is followed by its sleep and then by the next attempt
\* for the same chunk; an exception of the request leaves the call only
\* when max_retries attempts have failed.
C13_RetriesAnyError ==
    /\ (requests # <<>> /\ ~Last(requests).ok /\ Len(errors) < max_retries) =>
          \/ /\ pc = "sleep"
             /\ Len(SleepsOf(ci)) = Len(errors) - 1
          \/ /\ pc = "fn"
             /\ attempt = Len(errors) + 1
             /\ Len(SleepsOf(ci)) = Len(errors)
    /\ \A i \in 1..(Len(requests) - 1) :
          ~requests[i].ok => requests[i + 1].chunk_ix = requests[i].chunk_ix
    /\ (pc = "done" /\ outcome = "raised" /\ raised \in RemoteErrors) =>
          Len(errors) = max_retries

C13_Witness ==
    /\ pc = "fn" /\ attempt = 3
    /\ errors = <<"APIError", "ConnectError">>
    /\ Len(SleepsOf(ci)) = 2

\* The call ended in the raise at the end of _retry: every attempt the
\* current chunk was allowed has failed.
RaisedByRetry ==
    /\ outcome = "raised"
    /\ Len(ReqsOf(ci)) = (IF max_retries >= 1 THEN max_retries ELSE 0)
    /\ AllFailed(ReqsOf(ci))

\* C14 (SpecLive): a call whose requests and sleeps all end does end; with
\* batch_size b >= 1 it ends returned or in the raise of an exhausted
\* _retry, and it never sends more than ceil(N / b) * max_retries requests.
C14_Terminates ==
    /\ [](pc \in {"fn", "sleep"} => <>(pc = "done"))
    /\ []((pc = "done" /\ batch_size >= 1) =>
             (outcome = "returned" \/ RaisedByRetry))
    /\ [](batch_size >= 1 =>
             Len(requests) <= CeilDiv(Len(rows), batch_size) * max_retries)
    /\ [](batch_size < 1 => requests = <<>>)

C14_Witness ==
    /\ pc = "done" /\ outcome = "raised"
    /\ Len(rows) = 3 /\ batch_size = 1 /\ max_retries = 3
    /\ Len(requests) = 9

\* C16: no step of insert_rows, upsert_rows, _retry or _chunk, whether it
\* succeeds or fails, changes the configuration of the client
\* (default_schema, max_retries, backoff_seconds, batch_size), and once a
\* call has been made no step changes the caller's rows or their contents.
C16_ConfigAndRowsUnchanged ==
    [][config' = config /\ (pc # "idle" => rows' = rows)]_vars

C16_Witness ==
    /\ pc = "done" /\ outcome = "raised"
    /\ Len(rows) = 3 /\ Len(chunks) = 2
    /\ Len(sleeps) >= 3 /\ \E i \in 1..Len(requests) : requests[i].ok

\* C17: every chunk starts at attempt 1 with the whole max_retries budget
\* and its first sleep lasts backoff_seconds, whatever the earlier chunks
\* of the call used: the attempt number is one more than the requests
\* already sent for the current chunk, and _retry raises only when
\* max_retries requests of the current chunk alone have failed.
C17_BudgetPerChunk ==
    /\ pc = "fn" => attempt = Len(ReqsOf(ci)) + 1
    /\ pc = "sleep" => attempt = Len(ReqsOf(ci))
    /\ \A c \in 1..Len(chunks) :
          /\ SleepsOf(c) # <<>> => SleepsOf(c)[1].seconds = backoff_seconds
          /\ \A j \in 1..Len(SleepsOf(c)) :
                SleepsOf(c)[j].seconds = backoff_seconds * 2^(j - 1)
    /\ (pc = "done" /\ outcome = "raised" /\ ci >= 1 /\ max_retries >= 1) =>
          Len(ReqsOf(ci)) = max_retries

C17_Witness ==
    /\ pc = "done" /\ outcome = "raised" /\ ci = 2 /\ max_retries = 3
    /\ Len(ReqsOf(1)) = 3 /\ Len(SleepsOf(1)) = 2
    /\ Len(ReqsOf(2)) = 3 /\ Len(SleepsOf(2)) = 3
    /\ SleepsOf(2)[1].seconds = backoff_seconds

\* The rows of the c-th chunk of the call, read off the rows argument.
RowsOfChunk(c) ==
    SubSeq(rows, (c - 1) * batch_size + 1, Min(c * batch_size, Len(rows)))

\* C18: every request sent for chunk c, first try or retry, carries exactly
\* the rows of chunk c, to the schema and the table of the call, and for an
\* upsert with the conflict key of the call.
C18_AttemptSendsOwnChunk ==
    \A i \in 1..Len(requests) :
        LET r == requests[i]
        IN  /\ r.chunk_ix \in 1..Len(chunks)
            /\ r.req.rows = RowsOfChunk(r.chunk_ix)
            /\ r.req.kind = op
            /\ r.req.table = table
            /\ r.req.schema = (IF schema = NoneVal THEN default_schema ELSE schema)
            /\ r.req.on_conflict = on_conflict

C18_Witness ==
    /\ op = "upsert" /\ schema = "norm" /\ ci = 2 /\ Len(chunks) = 2
    /\ Len(ReqsOf(1)) = 2 /\ Len(ReqsOf(2)) = 2
    /\ chunks[1] # chunks[2]

\* _retry has returned normally for the c-th chunk: the for loop went on
\* past it, or the call returned after it.
RetryReturned(c) ==
    \/ c < ci
    \/ c = ci /\ pc = "done" /\ outcome = "returned"

\* C19: _retry returns normally only when its most recent invocation of the
\* unit of work succeeded; with max_retries < 1 the unit of work is never
\* invoked and a _retry that was entered ends in an error.
C19_ReturnMeansWritten ==
    /\ \A c \in 1..Len(chunks) :
          RetryReturned(c) => (ReqsOf(c) # <<>> /\ Last(ReqsOf(c)).ok)
    /\ max_retries < 1 =>
          /\ requests = <<>>
          /\ ci >= 1 => (pc = "done" /\ outcome = "raised" /\ db = db0)

C19_Witness ==
    /\ max_retries < 1 /\ ci = 1 /\ chunks # <<>>
    /\ pc = "done" /\ outcome = "raised" /\ raised = "TypeError"
    /\ requests = <<>>

\* The table after the requests rq that succeeded, and no other, were
\* applied to it.
RECURSIVE WrittenBy(_)
WrittenBy(rq) ==
    IF rq = <<>> THEN db0
    ELSE LET t == WrittenBy(SubSeq(rq, 1, Len(rq) - 1))
         IN  IF Last(rq).ok THEN Apply(t, Last(rq).req) ELSE t

\* The frame f of a call is what the call alone produces, given the answers
\* its own requests got: requests for its own chunks in their order, each
\* to its own target, a new chunk only after a success; an attempt counter
\* and errors that count its own failures only; a raise only after
\* max_retries failures of its own, with its own last error.
AsIfAlone(f) ==
    LET rq == f.requests
        mine(c) == SelectSeq(rq, LAMBDA r : r.chunk_ix = c)
        failed(c) == SelectSeq(mine(c), LAMBDA r : ~r.ok)
        target == IF f.id = 1
                  THEN [kind |-> "insert", schema |-> "raw",
                        table |-> "ohlcv_daily", on_conflict |-> NoneVal]
                  ELSE [kind |-> "upsert", schema |-> "norm",
                        table |-> "trades", on_conflict |-> "k"]
    IN  /\ \A i \in 1..Len(rq) :
              /\ rq[i].chunk_ix =
                    (IF i = 1 THEN 1
                     ELSE IF rq[i - 1].ok THEN rq[i - 1].chunk_ix + 1
                     ELSE rq[i - 1].chunk_ix)
              /\ rq[i].chunk_ix \in 1..Len(f.chunks)
              /\ rq[i].req.rows =
                    SubSeq(f.rows, (rq[i].chunk_ix - 1) * batch_size + 1,
                           Min(rq[i].chunk_ix * batch_size, Len(f.rows)))
              /\ \A j \in 1..Len(rq[i].req.rows) : rq[i].req.rows[j].v = 10 * f.id
              /\ rq[i].req.kind = target.kind
              /\ rq[i].req.schema = target.schema
              /\ rq[i].req.table = target.table
              /\ rq[i].req.on_conflict = target.on_conflict
        /\ \A c \in 1..Len(f.chunks) : Len(mine(c)) <= max_retries
        /\ f.pc = "fn" =>
              /\ f.attempt = Len(mine(f.ci)) + 1
              /\ f.ci = (IF rq = <<>> THEN 1
                         ELSE IF Last(rq).ok THEN Last(rq).chunk_ix + 1
                         ELSE Last(rq).chunk_ix)
        /\ f.pc = "sleep" =>
              /\ f.attempt = Len(mine(f.ci))
              /\ ~Last(rq).ok /\ Last(rq).chunk_ix = f.ci
              /\ f.wait = backoff_seconds * 2^(f.attempt - 1)
        /\ f.pc \in {"fn", "sleep"} =>
              /\ f.errors = [j \in 1..Len(failed(f.ci)) |-> ConcError(f.id)]
              /\ f.last_error =
                    (IF f.errors = <<>> THEN NoneVal ELSE ConcError(f.id))
        /\ Len(f.sleeps) =
              Len(SelectSeq(rq, LAMBDA r : ~r.ok)) -
                  (IF f.pc = "sleep" THEN 1 ELSE 0)
        /\ (f.pc = "done" /\ f.outcome = "raised") =>
              IF max_retries >= 1
              THEN /\ Len(mine(f.ci)) = max_retries
                   /\ failed(f.ci) = mine(f.ci)
                   /\ f.raised = ConcError(f.id)
              ELSE rq = <<>> /\ f.raised = "TypeError"
        /\ (f.pc = "done" /\ f.outcome = "returned") =>
              \A c \in 1..Len(f.chunks) : mine(c) # <<>> /\ Last(mine(c)).ok
        /\ f.db = WrittenBy(rq)

\* C15 (SpecConc): when two calls on the same client run concurrently, in
\* any interleaving of their steps, each call sends the requests it sends
\* alone (its own chunks, in its own order, to its own target) and has its
\* own attempt counter and last error; the failures of one call take no
\* attempt from the other and raise no error in it.
C15_CallsDoNotInterfere == AsIfAlone(ThisFrame) /\ AsIfAlone(other)

C15_Witness ==
    /\ max_retries = 2 /\ batch_size = 1
    /\ pc = "sleep" /\ attempt = 2 /\ ci = 1
    /\ other.pc = "sleep" /\ other.attempt = 1 /\ other.ci = 2
    /\ Len(other.requests) = 3
====
